---- MODULE Spec2Model ----
(***************************************************************************)
(* Model of the playlist transfer engine of neverpay2spotify:              *)
(*   src/api/index.py        (serverless copy, variant "api")              *)
(*   src/neverpay2spotify.py (Flask copy,      variant "flask")            *)
(* transfer_playlist is one sequential handler; every provider call it     *)
(* makes is one step of the state machine.  Strings whose content matters  *)
(* (the playlist locator) are sequences of one-character strings.          *)
(***************************************************************************)
EXTENDS Integers, Sequences, FiniteSets, TLC

(* ----------------------------- bounds ---------------------------------- *)
\* most page requests one fetch may issue (the service stops reporting a
\* next cursor on the last one)
MaxPages == 2
\* most items on one page
MaxPageLen == 2
\* most fragments a locator of the extractor specification is built from
MaxFrags == 4

(* ------------------------- python values -------------------------------- *)
None == "<None>"
EmptyStr == ""
\* python truthiness of a str-or-None value
Truthy(x) == x # None /\ x # EmptyStr
\* None where the other values are character sequences
NoneSeq == <<None>>
\* python truthiness of a character-sequence-or-None value
TruthySeq(s) == s # NoneSeq /\ s # <<>>

(* ------------------------- locator strings ------------------------------ *)
Lower == {"a","b","c","d","e","f","g","h","i","j","k","l","m",
          "n","o","p","q","r","s","t","u","v","w","x","y","z"}
Upper == {"A","B","C","D","E","F","G","H","I","J","K","L","M",
          "N","O","P","Q","R","S","T","U","V","W","X","Y","Z"}
Digit == {"0","1","2","3","4","5","6","7","8","9"}
\* the character class [a-zA-Z0-9]
Alnum == Lower \cup Upper \cup Digit

\* 'spotify.com/playlist/'
Marker == <<"s","p","o","t","i","f","y",".","c","o","m","/",
            "p","l","a","y","l","i","s","t","/">>
\* the literal prefix of the pattern r'playlist/([a-zA-Z0-9]+)'
Keyword == <<"p","l","a","y","l","i","s","t","/">>

\* sub occurs in s starting at position p (1-based)
OccursAt(s, sub, p) ==
    /\ p >= 1
    /\ p + Len(sub) - 1 <= Len(s)
    /\ \A k \in 1..Len(sub) : s[p + k - 1] = sub[k]

\* python: sub in s
Contains(s, sub) == \E p \in 1..(Len(s) + 1) : OccursAt(s, sub, p)

\* length of the longest run of [a-zA-Z0-9] of s that starts at position p
RECURSIVE RunLen(_, _)
RunLen(s, p) ==
    IF p <= Len(s) /\ s[p] \in Alnum THEN 1 + RunLen(s, p + 1) ELSE 0

\* the greedy group ([a-zA-Z0-9]+) starting at position p
Group(s, p) == SubSeq(s, p, p + RunLen(s, p) - 1)

\* start positions at which r'playlist/([a-zA-Z0-9]+)' matches
MatchStarts(s) ==
    {p \in 1..Len(s) :
        OccursAt(s, Keyword, p) /\ RunLen(s, p + Len(Keyword)) > 0}

Min(S) == CHOOSE x \in S : \A y \in S : x <= y

\* re.search(r'playlist/([a-zA-Z0-9]+)', s): group(1) of the leftmost match
ReSearchGroup(s) ==
    IF MatchStarts(s) = {} THEN NoneSeq
    ELSE Group(s, Min(MatchStarts(s)) + Len(Keyword))

extract_playlist_id_from_url(spotify_url) ==
    IF Contains(spotify_url, Marker)
    THEN ReSearchGroup(spotify_url)
    ELSE NoneSeq

(* --------------------------- input domains ------------------------------ *)
\* "https://open.spotify.com/playlist/4dnX?si=abc"
LocValid ==
    <<"h","t","t","p","s",":","/","/","o","p","e","n",".">> \o Marker
    \o <<"4","d","n","X","?","s","i","=","a","b","c">>
\* "https://example.com/not-a-playlist"
LocNoMarker ==
    <<"h","t","t","p","s",":","/","/","e","x","a","m","p","l","e",".",
      "c","o","m","/","n","o","t","-","a","-","p","l","a","y","l","i","s","t">>
\* "https://open.spotify.com/playlist/?si=abc": the marker, no identifier
LocNoId ==
    <<"h","t","t","p","s",":","/","/","o","p","e","n",".">> \o Marker
    \o <<"?","s","i","=","a","b","c">>
TransferLocators == {LocValid, LocNoMarker, LocNoId}

\* the fragments the locators of the extractor specification are built from
Fragments ==
    { <<"s","p","o","t","i","f","y",".","c","o","m","/">>,
      Keyword,
      <<"4","d","n","X">>,
      <<"z","9">>,
      <<"?">>,
      <<"/">> }

RECURSIVE Flatten(_)
Flatten(ss) == IF ss = <<>> THEN <<>> ELSE Head(ss) \o Flatten(Tail(ss))

SeqsUpTo(S, n) == UNION {[1..k -> S] : k \in 0..n}

ExtractLocators == {Flatten(fs) : fs \in SeqsUpTo(Fragments, MaxFrags)}

\* playlist items: item['track'] is a track object or None
TrackA == [present |-> TRUE, name |-> "Song A", artists |-> <<"X">>]
TrackB == [present |-> TRUE, name |-> "Song B", artists |-> <<"X", "Y">>]
Absent == [present |-> FALSE, name |-> None, artists |-> <<>>]
Items == {TrackA, TrackB, Absent}

PlaylistNames == {"Mix"}
PlaylistIds == {"PL1", "PL2"}
\* the messages str(e) of the exceptions the two providers raise
ProviderMsgs == {"HTTP 401", "timeout"}
\* the result lists ytm.search returns, each entry given by its
\* .get('videoId'): an id, None when the key is missing
ResultLists == {<<>>, <<"v1">>, <<"v2", "v1">>, <<None, "v1">>}
Variants == {"api", "flask"}

\* most tracks a source playlist holds
MaxTracks == 2

(* ------------------------------ state ----------------------------------- *)
VARIABLES
    variant,            \* which copy of the engine runs
    locator,            \* spotify_playlist_url
    pc,                 \* position in transfer_playlist
    playlist_id,
    playlist_name,
    tracks,
    results_next,       \* results['next'] of the last page, as a truth value
    ytm_playlist_id,
    i,                  \* number of items the for loop has consumed
    transferred_count,
    failed_tracks,
    video_ids,
    result,             \* the returned dict, None while running
    calls,              \* history: provider operations invoked, in order
    pages,              \* history: the item lists the pages returned
    searchLog,          \* history: per searched track, what ytm.search did
    errorSource,        \* history: the step whose failure ended the transfer
    request,            \* the POST that invoked the transfer, if one did
    response,           \* the HTTP response sent for it
    source,             \* the playlist the source service holds, if fixed
    other               \* the frame of a second call in the same process

vars == <<variant, locator, pc, playlist_id, playlist_name, tracks,
          results_next, ytm_playlist_id, i, transferred_count, failed_tracks,
          video_ids, result, calls, pages, searchLog, errorSource,
          request, response, source, other>>

NoResult == [running |-> TRUE]

Call(op, arg) == [op |-> op, arg |-> arg]

InitLocals ==
    /\ playlist_id = NoneSeq
    /\ playlist_name = None
    /\ tracks = <<>>
    /\ results_next = FALSE
    /\ ytm_playlist_id = None
    /\ i = 0
    /\ transferred_count = 0
    /\ failed_tracks = <<>>
    /\ video_ids = <<>>
    /\ result = NoResult
    /\ calls = <<>>
    /\ pages = <<>>
    /\ searchLog = <<>>
    /\ errorSource = None

\* transfer_playlist called directly: no HTTP request, no response
NoRequest == [path |-> None, json |-> TRUE, ytmusic_headers |-> "object"]
NoResponse == [status |-> 0, body |-> NoResult]

\* a source service free to return any page
AnySource == [finite |-> FALSE, items |-> <<>>, limit |-> 0]

\* the frame of the running call of transfer_playlist: its local variables
\* (and the history kept of it)
Frame ==
    [pc |-> pc, playlist_id |-> playlist_id, playlist_name |-> playlist_name,
     tracks |-> tracks, results_next |-> results_next,
     ytm_playlist_id |-> ytm_playlist_id, i |-> i,
     transferred_count |-> transferred_count,
     failed_tracks |-> failed_tracks, video_ids |-> video_ids,
     result |-> result, calls |-> calls, pages |-> pages,
     searchLog |-> searchLog, errorSource |-> errorSource]

\* one call alone in the process
Alone ==
    /\ request = NoRequest
    /\ response = NoResponse
    /\ other = <<>>

Init ==
    /\ variant \in Variants
    /\ locator \in TransferLocators
    /\ pc = "ytm_init"
    /\ InitLocals
    /\ source = AnySource
    /\ Alone

\* a handler that returns the error together with the counts gathered so far
ExceptPartial(msg, src) ==
    /\ result' = [error |-> msg,
                  transferred_count |-> transferred_count,
                  failed_tracks |-> failed_tracks]
    /\ errorSource' = src
    /\ pc' = "done"

\* a handler that replaces the exception's text by a fixed one
ExceptGeneric(msg, src) ==
    /\ result' = [error |-> "Transfer failed"]
    /\ errorSource' = src
    /\ pc' = "done"

\* except Exception as e: return {"error": str(e)}
Except(msg, src) ==
    /\ result' = [error |-> msg]
    /\ errorSource' = src
    /\ pc' = "done"

\* a construction whose failure is logged and ignored
InitYTMusicSwallow ==
    /\ pc = "ytm_init"
    /\ calls' = Append(calls, Call("YTMusic", "headers"))
    /\ pc' = "sp_init"
    /\ \/ UNCHANGED <<result, errorSource>>
       \/ errorSource' = "YTMusic" /\ UNCHANGED result
    /\ UNCHANGED <<variant, locator, request, source, response, other, playlist_id, playlist_name,
                   tracks, results_next, ytm_playlist_id, i,
                   transferred_count, failed_tracks, video_ids, pages,
                   searchLog>>

\* ytm = YTMusic(ytmusic_headers)
InitYTMusic ==
    /\ pc = "ytm_init"
    /\ calls' = Append(calls, Call("YTMusic", "headers"))
    /\ \/ /\ pc' = "sp_init"
          /\ UNCHANGED <<result, errorSource>>
       \/ \E msg \in ProviderMsgs : Except(msg, "YTMusic")
    /\ UNCHANGED <<variant, locator, request, source, response, other, playlist_id, playlist_name,
                   tracks, results_next, ytm_playlist_id, i,
                   transferred_count, failed_tracks, video_ids, pages,
                   searchLog>>

\* if spotify_client_id and spotify_client_secret: the explicit pair,
\* else: the pair of the environment; either way a SpotifyClientCredentials
SpotifyCredentials(given) ==
    IF given THEN "SpotifyClientCredentials" ELSE "SpotifyClientCredentials"

\* sp = spotipy.Spotify(client_credentials_manager=SpotifyClientCredentials(..))
InitSpotify ==
    /\ pc = "sp_init"
    /\ \E given \in BOOLEAN :
          calls' = Append(calls, Call("Spotify", SpotifyCredentials(given)))
    /\ \/ /\ pc' = "extract"
          /\ UNCHANGED <<result, errorSource>>
       \/ \E msg \in ProviderMsgs : Except(msg, "Spotify")
    /\ UNCHANGED <<variant, locator, request, source, response, other, playlist_id, playlist_name,
                   tracks, results_next, ytm_playlist_id, i,
                   transferred_count, failed_tracks, video_ids, pages,
                   searchLog>>

InvalidUrlError == [error |-> "Invalid Spotify playlist URL"]

\* playlist_id = extract_playlist_id_from_url(...); if not playlist_id: return
ExtractId ==
    /\ pc = "extract"
    /\ playlist_id' = extract_playlist_id_from_url(locator)
    /\ IF ~TruthySeq(playlist_id')
       THEN /\ result' = InvalidUrlError
            /\ errorSource' = "extract"
            /\ pc' = "done"
       ELSE /\ pc' = "playlist"
            /\ UNCHANGED <<result, errorSource>>
    /\ UNCHANGED <<variant, locator, request, source, response, other, playlist_name, tracks,
                   results_next, ytm_playlist_id, i, transferred_count,
                   failed_tracks, video_ids, calls, pages, searchLog>>

\* playlist = sp.playlist(playlist_id); playlist_name = playlist['name']
GetPlaylist ==
    /\ pc = "playlist"
    /\ calls' = Append(calls, Call("playlist", playlist_id))
    /\ \/ \E name \in PlaylistNames :
             /\ playlist_name' = name
             /\ pc' = "first_page"
             /\ UNCHANGED <<result, errorSource>>
       \/ /\ \E msg \in ProviderMsgs : Except(msg, "playlist")
          /\ UNCHANGED playlist_name
    /\ UNCHANGED <<variant, locator, request, source, response, other, playlist_id, tracks,
                   results_next, ytm_playlist_id, i, transferred_count,
                   failed_tracks, video_ids, pages, searchLog>>

\* what one sp.playlist_tracks request can return: a page of items and a
\* truth value for its 'next' cursor, within the bounds
PageResponses ==
    LET room == IF MaxTracks - Len(tracks) < MaxPageLen
                THEN MaxTracks - Len(tracks) ELSE MaxPageLen
    IN {[items |-> its, next |-> nx] :
           its \in SeqsUpTo(Items, room),
           nx \in {b \in BOOLEAN : b => Len(pages) + 1 < MaxPages}}

\* the page a service holding a fixed playlist returns for an offset: at most
\* limit items from there on, and a 'next' cursor when items lie beyond
ServedPage(offset) ==
    LET n  == Len(source.items)
        hi == IF offset + source.limit < n THEN offset + source.limit ELSE n
    IN [items |-> SubSeq(source.items, offset + 1, hi),
        next  |-> offset + source.limit < n]

\* what sp.playlist_tracks(playlist_id, offset=offset) can return
ServicePages(offset) ==
    IF source.finite THEN {ServedPage(offset)} ELSE PageResponses

\* a fetch that drops the items it has already seen
ExtendDedup(list, items) ==
    list \o SelectSeq(items,
                      LAMBDA it : \A k \in 1..Len(list) : list[k] # it)

\* tracks.extend(results['items'])
Extend(list, items) == list \o items

\* a loop that counts pages, not items: offset=number of pages read
NextOffsetByPage == Len(pages)

\* a loop that repeats the first request: no offset argument
NextOffsetOmitted == Len(<<>>)

\* the offset argument of a page request after the first: offset=len(tracks)
NextOffset == Len(tracks)

\* a fetch that, when a request fails, goes on with the pages read so far
FetchPagePartial(offset, src) ==
    /\ calls' = Append(calls, Call("playlist_tracks",
                                   [id |-> playlist_id, offset |-> offset]))
    /\ \/ \E page \in ServicePages(offset) :
             /\ tracks' = Extend(tracks, page.items)
             /\ results_next' = page.next
             /\ pages' = Append(pages, page.items)
             /\ pc' = IF page.next THEN "next_page" ELSE "create"
             /\ UNCHANGED <<result, errorSource>>
       \/ /\ errorSource' = src
          /\ pc' = "create"
          /\ UNCHANGED <<result, tracks, results_next, pages>>
    /\ UNCHANGED <<variant, locator, request, source, response, other, playlist_id, playlist_name,
                   ytm_playlist_id, i, transferred_count, failed_tracks,
                   video_ids, searchLog>>

\* results = sp.playlist_tracks(playlist_id[, offset]); tracks.extend(..);
\* then the test of "while results['next']"
FetchPage(offset, src) ==
    /\ calls' = Append(calls, Call("playlist_tracks",
                                   [id |-> playlist_id, offset |-> offset]))
    /\ \/ \E page \in ServicePages(offset) :
             /\ tracks' = Extend(tracks, page.items)
             /\ results_next' = page.next
             /\ pages' = Append(pages, page.items)
             /\ pc' = IF page.next THEN "next_page" ELSE "create"
             /\ UNCHANGED <<result, errorSource>>
       \/ /\ \E msg \in ProviderMsgs : Except(msg, src)
          /\ UNCHANGED <<tracks, results_next, pages>>
    /\ UNCHANGED <<variant, locator, request, source, response, other, playlist_id, playlist_name,
                   ytm_playlist_id, i, transferred_count, failed_tracks,
                   video_ids, searchLog>>

\* results = sp.playlist_tracks(playlist_id)   (offset defaults to 0)
FirstPage ==
    /\ pc = "first_page"
    /\ FetchPage(0, "playlist_tracks")

\* while results['next']: results = sp.playlist_tracks(.., offset=len(tracks))
NextPage ==
    /\ pc = "next_page"
    /\ results_next
    /\ FetchPage(NextOffset, "playlist_tracks")

\* the position after the for loop has consumed n items
LoopPc(n, list) == IF n < Len(list) THEN "loop" ELSE "add"

Description(name) == <<"Transferred from Spotify playlist: ", name>>

\* the ids of the destination playlists that the other call has created: a
\* playlist the service creates now is none of them
ExistingIds == {other[k].ytm_playlist_id : k \in 1..Len(other)}

\* a creation that first looks for a playlist of the same title made by an
\* earlier call and takes that one
CreatePlaylistReuse ==
    /\ pc = "create"
    /\ IF \E k \in 1..Len(other) : /\ other[k].ytm_playlist_id # None
                                   /\ other[k].playlist_name = playlist_name
       THEN /\ calls' = Append(calls, Call("get_library_playlists", <<>>))
            /\ \E k \in 1..Len(other) :
                  ytm_playlist_id' = other[k].ytm_playlist_id
            /\ transferred_count' = 0
            /\ failed_tracks' = <<>>
            /\ video_ids' = <<>>
            /\ i' = 0
            /\ pc' = LoopPc(0, tracks)
            /\ UNCHANGED <<result, errorSource>>
       ELSE /\ calls' = Append(calls, Call("create_playlist",
                           [title |-> playlist_name,
                            description |-> Description(playlist_name),
                            privacy_status |-> "PRIVATE"]))
            /\ \E id \in PlaylistIds \ ExistingIds :
                  /\ ytm_playlist_id' = id
                  /\ transferred_count' = 0
                  /\ failed_tracks' = <<>>
                  /\ video_ids' = <<>>
                  /\ i' = 0
                  /\ pc' = LoopPc(0, tracks)
                  /\ UNCHANGED <<result, errorSource>>
    /\ UNCHANGED <<variant, locator, request, source, response, other,
                   playlist_id, playlist_name,
                   tracks, results_next, pages, searchLog>>

\* ytm_playlist_id = ytm.create_playlist(title, description, "PRIVATE");
\* transferred_count = 0; failed_tracks = []; video_ids = []
CreatePlaylist ==
    /\ pc = "create"
    /\ calls' = Append(calls, Call("create_playlist",
                   [title |-> playlist_name,
                    description |-> Description(playlist_name),
                    privacy_status |-> "PRIVATE"]))
    /\ \/ \E id \in PlaylistIds \ ExistingIds :
             /\ ytm_playlist_id' = id
             /\ transferred_count' = 0
             /\ failed_tracks' = <<>>
             /\ video_ids' = <<>>
             /\ i' = 0
             /\ pc' = LoopPc(0, tracks)
             /\ UNCHANGED <<result, errorSource>>
       \/ /\ \E msg \in ProviderMsgs : Except(msg, "create_playlist")
          /\ UNCHANGED <<ytm_playlist_id, transferred_count, failed_tracks,
                         video_ids, i>>
    /\ UNCHANGED <<variant, locator, request, source, response, other, playlist_id, playlist_name,
                   tracks, results_next, pages, searchLog>>

\* a loop that records a slot without a track as a failed track
SkipAbsentAsFailed ==
    /\ pc = "loop"
    /\ i < Len(tracks)
    /\ ~tracks[i + 1].present
    /\ i' = i + 1
    /\ pc' = LoopPc(i + 1, tracks)
    /\ failed_tracks' = Append(failed_tracks,
                               [name |-> tracks[i + 1].name,
                                artists |-> tracks[i + 1].artists])
    /\ UNCHANGED <<variant, locator, request, source, response, other, playlist_id, playlist_name,
                   tracks, results_next, ytm_playlist_id, transferred_count,
                   video_ids, result, calls, pages, searchLog,
                   errorSource>>

\* for track in tracks: if track['track']: ... (a slot without a track)
SkipAbsent ==
    /\ pc = "loop"
    /\ i < Len(tracks)
    /\ ~tracks[i + 1].present
    /\ i' = i + 1
    /\ pc' = LoopPc(i + 1, tracks)
    /\ UNCHANGED <<variant, locator, request, source, response, other, playlist_id, playlist_name,
                   tracks, results_next, ytm_playlist_id, transferred_count,
                   failed_tracks, video_ids, result, calls, pages, searchLog,
                   errorSource>>

\* search_query = f"{track_name} {' '.join(artists)}"
SearchQuery(track) == <<track.name>> \o track.artists

\* def search_youtube_music(ytm, query, max_results=5)
max_results == 5

\* the arguments of ytm.search(query, filter="songs", limit=max_results)
SearchArgs(track) ==
    [query |-> SearchQuery(track), filter |-> "songs", limit |-> max_results]

\* what ytm.search(query, filter="songs", limit=5) does
Raised == [kind |-> "raise", results |-> <<>>]
\* the Flask copy names its parameter ytmusic and reads the unbound name ytm:
\* NameError before the provider is reached
UnboundName == [kind |-> "unbound", results |-> <<>>]
Results(rs) == [kind |-> "ok", results |-> rs]
SearchResponses(v) ==
    IF v = "flask" THEN {UnboundName}
    ELSE {Raised} \cup {Results(rs) : rs \in ResultLists}

\* a helper that takes the first result that carries an id
search_youtube_musicFirstWithId(resp) ==
    LET withId == SelectSeq(resp.results, Truthy)
    IN IF resp.kind = "ok" /\ Len(withId) > 0 THEN withId[1] ELSE None

\* search_youtube_music: results[0].get('videoId') of a non-empty result
\* list, None otherwise and on every exception
search_youtube_music(resp) ==
    IF resp.kind = "ok" /\ Len(resp.results) > 0
    THEN resp.results[1]
    ELSE None

\* a loop body that puts the newest id first
RecordMatchPrepend(track, video_id) ==
    IF Truthy(video_id)
    THEN /\ video_ids' = <<video_id>> \o video_ids
         /\ transferred_count' = transferred_count + 1
         /\ UNCHANGED failed_tracks
    ELSE /\ failed_tracks' = Append(failed_tracks,
                 [name |-> track.name, artists |-> track.artists])
         /\ UNCHANGED <<video_ids, transferred_count>>

\* a loop body that puts the newest failed track first
RecordMatchFailedFirst(track, video_id) ==
    IF Truthy(video_id)
    THEN /\ video_ids' = Append(video_ids, video_id)
         /\ transferred_count' = transferred_count + 1
         /\ UNCHANGED failed_tracks
    ELSE /\ failed_tracks' =
                <<[name |-> track.name, artists |-> track.artists]>>
                \o failed_tracks
         /\ UNCHANGED <<video_ids, transferred_count>>

\* a loop body that forgets to count a match
RecordMatchNoCount(track, video_id) ==
    IF Truthy(video_id)
    THEN /\ video_ids' = Append(video_ids, video_id)
         /\ UNCHANGED <<transferred_count, failed_tracks>>
    ELSE /\ failed_tracks' = Append(failed_tracks,
                 [name |-> track.name, artists |-> track.artists])
         /\ UNCHANGED <<video_ids, transferred_count>>

\* if video_id: video_ids.append; transferred_count += 1
\* else: failed_tracks.append({'name': .., 'artists': ..})
RecordMatch(track, video_id) ==
    IF Truthy(video_id)
    THEN /\ video_ids' = Append(video_ids, video_id)
         /\ transferred_count' = transferred_count + 1
         /\ UNCHANGED failed_tracks
    ELSE /\ failed_tracks' = Append(failed_tracks,
                 [name |-> track.name, artists |-> track.artists])
         /\ UNCHANGED <<video_ids, transferred_count>>

\* a loop body whose search has no try/except of its own: a raising search
\* reaches the handler of transfer_playlist
SearchTrackUncaught ==
    /\ pc = "loop"
    /\ i < Len(tracks)
    /\ tracks[i + 1].present
    /\ \E resp \in SearchResponses(variant) :
          /\ calls' = IF resp.kind = "unbound" THEN calls
                      ELSE Append(calls,
                                  Call("search", SearchArgs(tracks[i + 1])))
          /\ searchLog' = Append(searchLog, [idx |-> i + 1, resp |-> resp])
          /\ IF resp.kind = "ok"
             THEN /\ RecordMatch(tracks[i + 1], search_youtube_music(resp))
                  /\ i' = i + 1
                  /\ pc' = LoopPc(i + 1, tracks)
                  /\ UNCHANGED <<result, errorSource>>
             ELSE /\ \E msg \in ProviderMsgs : Except(msg, "search")
                  /\ UNCHANGED <<i, video_ids, transferred_count,
                                 failed_tracks>>
    /\ UNCHANGED <<variant, locator, request, source, response, other, playlist_id, playlist_name,
                   tracks, results_next, ytm_playlist_id, pages>>

\* one iteration of the for loop over a slot that holds a track
SearchTrack ==
    /\ pc = "loop"
    /\ i < Len(tracks)
    /\ tracks[i + 1].present
    /\ \E resp \in SearchResponses(variant) :
          /\ calls' = IF resp.kind = "unbound" THEN calls
                      ELSE Append(calls,
                                  Call("search", SearchArgs(tracks[i + 1])))
          /\ searchLog' = Append(searchLog, [idx |-> i + 1, resp |-> resp])
          /\ RecordMatch(tracks[i + 1], search_youtube_music(resp))
    /\ i' = i + 1
    /\ pc' = LoopPc(i + 1, tracks)
    /\ UNCHANGED <<variant, locator, request, source, response, other, playlist_id, playlist_name,
                   tracks, results_next, ytm_playlist_id, result, pages,
                   errorSource>>

\* a commit step without the emptiness test
NonEmptyListAlways(list) == TRUE

\* if video_ids:
NonEmptyList(list) == list # <<>>

\* an add that, when it fails, deletes the playlist it was to fill
AddItemsCompensate ==
    /\ pc = "add"
    /\ NonEmptyList(video_ids)
    /\ \/ /\ calls' = Append(calls, Call("add_playlist_items",
                       [playlistId |-> ytm_playlist_id,
                        videoIds |-> video_ids]))
          /\ pc' = "return"
          /\ UNCHANGED <<result, errorSource>>
       \/ /\ calls' = calls \o
                    <<Call("add_playlist_items",
                           [playlistId |-> ytm_playlist_id,
                            videoIds |-> video_ids]),
                      Call("delete_playlist", ytm_playlist_id)>>
          /\ \E msg \in ProviderMsgs : Except(msg, "add_playlist_items")
    /\ UNCHANGED <<variant, locator, request, source, response, other,
                   playlist_id, playlist_name,
                   tracks, results_next, ytm_playlist_id, i,
                   transferred_count, failed_tracks, video_ids, pages,
                   searchLog>>

\* an add that names the destination playlist by its title
AddItemsByName ==
    /\ pc = "add"
    /\ NonEmptyList(video_ids)
    /\ calls' = Append(calls, Call("add_playlist_items",
                   [playlistId |-> playlist_name, videoIds |-> video_ids]))
    /\ \/ /\ pc' = "return"
          /\ UNCHANGED <<result, errorSource>>
       \/ \E msg \in ProviderMsgs : Except(msg, "add_playlist_items")
    /\ UNCHANGED <<variant, locator, request, source, response, other, playlist_id, playlist_name,
                   tracks, results_next, ytm_playlist_id, i,
                   transferred_count, failed_tracks, video_ids, pages,
                   searchLog>>

\* ytm.add_playlist_items(ytm_playlist_id, video_ids)
AddItems ==
    /\ pc = "add"
    /\ NonEmptyList(video_ids)
    /\ calls' = Append(calls, Call("add_playlist_items",
                   [playlistId |-> ytm_playlist_id, videoIds |-> video_ids]))
    /\ \/ /\ pc' = "return"
          /\ UNCHANGED <<result, errorSource>>
       \/ \E msg \in ProviderMsgs : Except(msg, "add_playlist_items")
    /\ UNCHANGED <<variant, locator, request, source, response, other, playlist_id, playlist_name,
                   tracks, results_next, ytm_playlist_id, i,
                   transferred_count, failed_tracks, video_ids, pages,
                   searchLog>>

\* a report that counts only the slots holding a track
ReportPresentOnly ==
    [success |-> TRUE,
     playlist_name |-> playlist_name,
     total_tracks |-> Len(SelectSeq(tracks, LAMBDA it : it.present)),
     transferred_count |-> transferred_count,
     failed_tracks |-> failed_tracks,
     ytm_playlist_id |-> ytm_playlist_id]

\* the dict of the final return statement
Report ==
    [success |-> TRUE,
     playlist_name |-> playlist_name,
     total_tracks |-> Len(tracks),
     transferred_count |-> transferred_count,
     failed_tracks |-> failed_tracks,
     ytm_playlist_id |-> ytm_playlist_id]

\* return {"success": True, ...}
Return ==
    /\ \/ pc = "return"
       \/ pc = "add" /\ ~NonEmptyList(video_ids)
    /\ result' = Report
    /\ pc' = "done"
    /\ UNCHANGED <<variant, locator, request, source, response, other, playlist_id, playlist_name,
                   tracks, results_next, ytm_playlist_id, i,
                   transferred_count, failed_tracks, video_ids, calls, pages,
                   searchLog, errorSource>>

Next ==
    \/ InitYTMusic
    \/ InitSpotify
    \/ ExtractId
    \/ GetPlaylist
    \/ FirstPage
    \/ NextPage
    \/ CreatePlaylist
    \/ SkipAbsent
    \/ SearchTrack
    \/ AddItems
    \/ Return

Spec == Init /\ [][Next]_vars

(* ------------- a transfer from a service holding a playlist ------------- *)
\* the playlists the source service may hold, with the page size it serves
FiniteSources ==
    {[finite |-> TRUE, items |-> its, limit |-> lim] :
        its \in SeqsUpTo(Items, MaxTracks), lim \in 1..MaxPageLen}

InitFinite ==
    /\ variant \in Variants
    /\ locator \in TransferLocators
    /\ pc = "ytm_init"
    /\ InitLocals
    /\ source \in FiniteSources
    /\ Alone

\* the body of transfer_playlist is sequential code: it keeps running
SpecFinite == InitFinite /\ [][Next]_vars /\ WF_vars(Next)

(* ------------------- the POST handler of /transfer ---------------------- *)
\* data.get('ytmusic_headers'): missing, {}, a non-empty object, or a string
\* that is not JSON
HeaderKinds == {None, "{}", "object", "not json"}

\* a POST: its path, whether its body parses as JSON, and its headers field
Requests ==
    {[path |-> p, json |-> j, ytmusic_headers |-> h] :
        p \in {"/transfer", "/other"}, j \in BOOLEAN, h \in HeaderKinds}

\* data.get('spotify_url'): missing, "", or a locator
HttpLocators == TransferLocators \cup {NoneSeq, <<>>}

TruthyHeaders(h) == h \notin {None, "{}"}

InitHttp ==
    /\ variant \in Variants
    /\ locator \in HttpLocators
    /\ request \in Requests
    /\ pc = "do_POST"
    /\ InitLocals
    /\ source = AnySource
    /\ response = NoResponse
    /\ other = <<>>

\* the answer do_POST / transfer() gives before it calls transfer_playlist,
\* or NoResponse when it goes on to call it
EarlyResponse ==
    IF request.path # "/transfer"
    THEN [status |-> 404, body |-> [text |-> "Not Found"]]
    ELSE IF ~request.json
    THEN [status |-> 500, body |-> [error |-> "Expecting value"]]
    ELSE IF ~TruthySeq(locator) \/ ~TruthyHeaders(request.ytmusic_headers)
    THEN [status |-> 400, body |-> [error |-> "Missing required parameters"]]
    ELSE IF variant = "flask" /\ request.ytmusic_headers = "not json"
    THEN [status |-> 400,
          body |-> [error |-> "Invalid YouTube Music headers format"]]
    ELSE NoResponse

\* do_POST up to the call of transfer_playlist
DoPost ==
    /\ pc = "do_POST"
    /\ response' = EarlyResponse
    /\ pc' = IF EarlyResponse = NoResponse THEN "ytm_init" ELSE "responded"
    /\ UNCHANGED <<variant, locator, request, source, other, playlist_id,
                   playlist_name, tracks, results_next, ytm_playlist_id, i,
                   transferred_count, failed_tracks, video_ids, result,
                   calls, pages, searchLog, errorSource>>

\* a handler that answers a failed transfer with status 500
StatusOfByOutcome(r) == IF "error" \in DOMAIN r THEN 500 ELSE 200

\* self.send_response(200) / return jsonify(result)
StatusOf(r) == 200

\* result = transfer_playlist(..) has returned: send it
Respond ==
    /\ pc = "done"
    /\ request # NoRequest
    /\ response' = [status |-> StatusOf(result), body |-> result]
    /\ pc' = "responded"
    /\ UNCHANGED <<variant, locator, request, source, other, playlist_id,
                   playlist_name, tracks, results_next, ytm_playlist_id, i,
                   transferred_count, failed_tracks, video_ids, result,
                   calls, pages, searchLog, errorSource>>

NextHttp ==
    \/ DoPost
    \/ Next
    \/ Respond

SpecHttp == InitHttp /\ [][NextHttp]_vars

(* ------------------ two calls in the same process ----------------------- *)
\* the playlists the two calls read, served one item a page
TwoCallSources ==
    {[finite |-> TRUE, items |-> its, limit |-> 1] :
        its \in {<<TrackA>>, <<Absent, TrackB>>}}

\* two calls for the same locator, neither has started; one is running
InitTwo ==
    /\ variant \in Variants
    /\ locator \in TransferLocators
    /\ pc = "ytm_init"
    /\ InitLocals
    /\ source \in TwoCallSources
    /\ request = NoRequest
    /\ response = NoResponse
    /\ other = <<Frame>>

\* a switch that leaves video_ids where it is: one list for all calls
SwitchSharedIds ==
    /\ other # <<>>
    /\ other' = <<Frame>>
    /\ pc' = other[1].pc
    /\ playlist_id' = other[1].playlist_id
    /\ playlist_name' = other[1].playlist_name
    /\ tracks' = other[1].tracks
    /\ results_next' = other[1].results_next
    /\ ytm_playlist_id' = other[1].ytm_playlist_id
    /\ i' = other[1].i
    /\ transferred_count' = other[1].transferred_count
    /\ failed_tracks' = other[1].failed_tracks
    /\ result' = other[1].result
    /\ calls' = other[1].calls
    /\ pages' = other[1].pages
    /\ searchLog' = other[1].searchLog
    /\ errorSource' = other[1].errorSource
    /\ UNCHANGED <<variant, locator, request, source, response, video_ids>>

\* the other call runs next: every local of transfer_playlist belongs to the
\* frame of its call and goes with it
Switch ==
    /\ other # <<>>
    /\ other' = <<Frame>>
    /\ pc' = other[1].pc
    /\ playlist_id' = other[1].playlist_id
    /\ playlist_name' = other[1].playlist_name
    /\ tracks' = other[1].tracks
    /\ results_next' = other[1].results_next
    /\ ytm_playlist_id' = other[1].ytm_playlist_id
    /\ i' = other[1].i
    /\ transferred_count' = other[1].transferred_count
    /\ failed_tracks' = other[1].failed_tracks
    /\ video_ids' = other[1].video_ids
    /\ result' = other[1].result
    /\ calls' = other[1].calls
    /\ pages' = other[1].pages
    /\ searchLog' = other[1].searchLog
    /\ errorSource' = other[1].errorSource
    /\ UNCHANGED <<variant, locator, request, source, response>>

NextTwo ==
    \/ Next
    \/ Switch

SpecTwo == InitTwo /\ [][NextTwo]_vars

(* --------------- the extractor alone, over many locators ---------------- *)
InitExtract ==
    /\ variant \in Variants
    /\ locator \in ExtractLocators
    /\ pc = "extract_call"
    /\ InitLocals
    /\ source = AnySource
    /\ Alone

\* one call of extract_playlist_id_from_url
ExtractCall ==
    /\ pc = "extract_call"
    /\ playlist_id' = extract_playlist_id_from_url(locator)
    /\ pc' = "extract_ret"
    /\ UNCHANGED <<variant, locator, request, source, response, other, playlist_name, tracks,
                   results_next, ytm_playlist_id, i, transferred_count,
                   failed_tracks, video_ids, result, calls, pages, searchLog,
                   errorSource>>

NextExtract == ExtractCall

SpecExtract == InitExtract /\ [][NextExtract]_vars

TypeOK ==
    /\ pc \in {"ytm_init", "sp_init", "extract", "playlist", "first_page",
               "next_page", "create", "loop", "add", "return", "done",
               "extract_call", "extract_ret", "do_POST", "responded"}
    /\ i \in 0..Len(tracks)
    /\ transferred_count \in 0..Len(tracks)

(* ------------------- vocabulary of the properties ----------------------- *)
CallsOf(op) == SelectSeq(calls, LAMBDA c : c.op = op)

\* the items of all pages, in page order and in-page order
FetchedItems == Flatten(pages)

CountIf(list, P(_)) == Len(SelectSeq(list, P))

IsPresent(item) == item.present
IsAbsent(item) == ~item.present

\* the match of one searched track: Found(id) or NotFound
IsFound(entry) == Truthy(search_youtube_music(entry.resp))
IsNotFound(entry) == ~IsFound(entry)
DidRaise(entry) == entry.resp.kind \in {"raise", "unbound"}

\* the ids of the Found matches, in the order the tracks were searched
RECURSIVE FoundIds(_)
FoundIds(log) ==
    IF log = <<>> THEN <<>>
    ELSE (IF IsFound(Head(log))
          THEN <<search_youtube_music(Head(log).resp)>> ELSE <<>>)
         \o FoundIds(Tail(log))

\* the {name, artists} records of the NotFound matches, in search order
RECURSIVE NotFoundRecords(_, _)
NotFoundRecords(log, list) ==
    IF log = <<>> THEN <<>>
    ELSE (IF IsNotFound(Head(log))
          THEN <<[name |-> list[Head(log).idx].name,
                  artists |-> list[Head(log).idx].artists]>>
          ELSE <<>>)
         \o NotFoundRecords(Tail(log), list)

\* the positions of the present slots of a track list, ascending
RECURSIVE PresentIdx(_, _)
PresentIdx(list, n) ==
    IF n = 0 THEN <<>>
    ELSE PresentIdx(list, n - 1) \o (IF list[n].present THEN <<n>> ELSE <<>>)

\* the positions the searches were made for, in the order they were made
SearchedIdx == [k \in 1..Len(searchLog) |-> searchLog[k].idx]

ReportFields == {"success", "playlist_name", "total_tracks",
                 "transferred_count", "failed_tracks", "ytm_playlist_id"}
IsReport(r) == DOMAIN r = ReportFields
IsError(r) == DOMAIN r = {"error"}

\* the for loop has run over the whole fetched list
LoopCompleted == ytm_playlist_id # None /\ i = Len(tracks)

(* ------------------------------ C1 -------------------------------------- *)
\* C1: for a locator from which no playlist identifier can be extracted,
\* transfer returns the invalid-locator error and no provider operation
\* (handle construction included) has been invoked before it returns.
C1_InvalidLocatorNoProviderCall ==
    (pc = "done" /\ ~TruthySeq(extract_playlist_id_from_url(locator)))
        => (result = InvalidUrlError /\ calls = <<>>)

(* ------------------------------ C2 -------------------------------------- *)
\* C2: when at least one present track is matched, add_playlist_items is
\* called exactly once, after the search of the last track, with exactly the
\* matched ids in source-playlist order; it is never called twice and never
\* before the searches are over.
C2_AddItemsOnceInOrder ==
    /\ Len(CallsOf("add_playlist_items")) <= 1
    /\ \A k \in 1..Len(calls) :
          calls[k].op = "add_playlist_items" =>
             /\ k = Len(calls)
             /\ SearchedIdx = PresentIdx(tracks, Len(tracks))
             /\ calls[k].arg.videoIds = FoundIds(searchLog)
    /\ (pc = "done" /\ FoundIds(searchLog) # <<>>)
          => Len(CallsOf("add_playlist_items")) = 1

\* a finished transfer that matched two tracks with two different ids
C2_Witness ==
    /\ pc = "done"
    /\ Len(searchLog) = 2
    /\ FoundIds(searchLog) = <<"v2", "v1">>
    /\ Len(CallsOf("add_playlist_items")) = 1
    /\ calls[Len(calls)].arg.videoIds = <<"v2", "v1">>

(* ------------------------------ C3 -------------------------------------- *)
\* C3: in every returned report, failed_tracks is exactly the {name, artists}
\* records of the present tracks whose match was NotFound, in source order,
\* and transferred_count is the number of present tracks whose match was
\* Found.
C3_ReportMirrorsMatches ==
    (pc = "done" /\ IsReport(result)) =>
        /\ SearchedIdx = PresentIdx(FetchedItems, Len(FetchedItems))
        /\ result.failed_tracks = NotFoundRecords(searchLog, FetchedItems)
        /\ result.transferred_count = CountIf(searchLog, IsFound)

\* a report over two different tracks, both NotFound: the later one of the
\* playlist is the later one of failed_tracks
C3_Witness ==
    /\ pc = "done" /\ IsReport(result)
    /\ FetchedItems = <<TrackB, TrackA>>
    /\ Len(result.failed_tracks) = 2
    /\ result.failed_tracks[1].name = TrackB.name
    /\ result.failed_tracks[2].name = TrackA.name
    /\ result.transferred_count = 0

(* ------------------------------ C4 -------------------------------------- *)
\* C4: at every point of the per-track loop, transferred_count plus the
\* length of failed_tracks is the number of present tracks processed so far,
\* and video_ids has transferred_count entries.
C4_LoopAccumulation ==
    /\ transferred_count + Len(failed_tracks)
          = CountIf(SubSeq(tracks, 1, i), IsPresent)
    /\ Len(video_ids) = transferred_count

\* at loop exit, after a miss and a match
C4_Witness ==
    /\ pc = "add"
    /\ i = 2
    /\ transferred_count = 1
    /\ Len(failed_tracks) = 1
    /\ IsNotFound(searchLog[1])

(* ------------------------------ C5 -------------------------------------- *)
\* C5: every returned report has total_tracks = length of failed_tracks +
\* transferred_count + number of absent slots fetched, 0 <= transferred_count
\* <= total_tracks, and total_tracks is the length of the fetched sequence.
C5_ReportTotals ==
    (pc = "done" /\ IsReport(result)) =>
        /\ result.total_tracks = Len(FetchedItems)
        /\ result.total_tracks
              = Len(result.failed_tracks) + result.transferred_count
                + CountIf(FetchedItems, IsAbsent)
        /\ 0 <= result.transferred_count
        /\ result.transferred_count <= result.total_tracks

\* a report over an absent slot and a matched track
C5_Witness ==
    /\ pc = "done" /\ IsReport(result)
    /\ result.total_tracks = 2
    /\ result.transferred_count = 1
    /\ result.failed_tracks = <<>>
    /\ CountIf(FetchedItems, IsAbsent) = 1

(* ------------------------------ C6 -------------------------------------- *)
\* C6: when no track is matched (every present track NotFound, or no present
\* track at all), create_playlist has still been called exactly once,
\* add_playlist_items is never called, and the transfer returns a report with
\* transferred_count = 0, not an error.
C6_EmptyTransferIsReport ==
    /\ FoundIds(searchLog) = <<>> => CallsOf("add_playlist_items") = <<>>
    /\ (pc = "done" /\ LoopCompleted /\ FoundIds(searchLog) = <<>>) =>
          /\ Len(CallsOf("create_playlist")) = 1
          /\ IsReport(result)
          /\ result.transferred_count = 0

\* a finished transfer of two present tracks, both NotFound
C6_Witness ==
    /\ pc = "done" /\ IsReport(result)
    /\ Len(searchLog) = 2
    /\ FoundIds(searchLog) = <<>>
    /\ Len(result.failed_tracks) = 2
    /\ Len(CallsOf("create_playlist")) = 1

(* ------------------------------ C7 -------------------------------------- *)
\* C7: the fetched track sequence is the concatenation of the items of all
\* pages in page order and in-page order, nothing dropped, reordered or
\* deduplicated, and every page request after the first uses offset = number
\* of items retrieved so far.
C7_PagesConcatenated ==
    /\ tracks = FetchedItems
    /\ LET reqs == CallsOf("playlist_tracks")
       IN /\ Len(reqs) \in {Len(pages), Len(pages) + 1}
          /\ \A k \in 1..Len(reqs) :
                /\ reqs[k].arg.id = playlist_id
                /\ k > 1 => reqs[k].arg.offset
                               = Len(Flatten(SubSeq(pages, 1, k - 1)))
    /\ (pc = "done" /\ IsReport(result))
          => result.total_tracks = Len(FetchedItems)

\* two pages (next cursor present, then absent) that hold the same track
C7_Witness ==
    /\ pc = "create"
    /\ Len(pages) = 2
    /\ Len(pages[1]) = 1 /\ Len(pages[2]) = 1
    /\ tracks[1] = tracks[2]
    /\ tracks[1].present
    /\ CallsOf("playlist_tracks")[2].arg.offset = 1

(* ------------------------------ C8 -------------------------------------- *)
\* the positions right after an occurrence of the marker
MarkerEnds(s) ==
    {p + Len(Marker) : p \in {q \in 1..Len(s) : OccursAt(s, Marker, q)}}

\* C8: extract_playlist_id_from_url returns exactly the maximal [A-Za-z0-9]+
\* segment that immediately follows the marker 'spotify.com/playlist/', also
\* when 'playlist/' followed by alphanumerics occurs elsewhere; it fails when
\* the marker is absent and when no identifier segment follows the marker.
C8_IdFollowsMarker ==
    pc = "extract_ret" =>
        IF \A q \in MarkerEnds(locator) : RunLen(locator, q) = 0
        THEN playlist_id = NoneSeq
        ELSE \E q \in MarkerEnds(locator) :
                /\ RunLen(locator, q) > 0
                /\ playlist_id = Group(locator, q)

(* ------------------------------ C9 -------------------------------------- *)
\* C9: every transfer ends with exactly one outcome, a full report or a
\* single error: no result carries both, no report follows a terminal
\* failure, and no exception escapes transfer_playlist.
C9_ReportXorError ==
    /\ pc \notin {"done", "extract_call", "extract_ret"} => result = NoResult
    /\ pc = "done" => (IsReport(result) /\ ~IsError(result))
                      \/ (IsError(result) /\ ~IsReport(result))
    /\ errorSource # None => pc = "done" /\ IsError(result)
    /\ IsReport(result) =>
          /\ errorSource = None
          /\ result.success = TRUE
          /\ result.playlist_name \in PlaylistNames
          /\ result.ytm_playlist_id \in PlaylistIds
    /\ pc # "escaped"

\* a transfer that matched a track and then failed in add_playlist_items
C9_Witness ==
    /\ pc = "done"
    /\ errorSource = "add_playlist_items"
    /\ IsError(result)
    /\ transferred_count = 1 /\ Len(failed_tracks) = 1

(* ------------------------------ C10 ------------------------------------- *)
\* C10: a search that raises affects only its own track: the track is
\* recorded in failed_tracks, the transfer does not end in an error because
\* of it, and every later present track is still searched and aggregated.
C10_SearchFailureIsolated ==
    /\ errorSource # "search"
    /\ \A k \in 1..Len(searchLog) :
          DidRaise(searchLog[k]) =>
             /\ IsNotFound(searchLog[k])
             /\ \E j \in 1..Len(failed_tracks) :
                   /\ failed_tracks[j].name = tracks[searchLog[k].idx].name
                   /\ failed_tracks[j].artists
                         = tracks[searchLog[k].idx].artists
                   /\ j = CountIf(SubSeq(searchLog, 1, k), IsNotFound)
             /\ pc = "done" =>
                   /\ LoopCompleted
                   /\ SearchedIdx = PresentIdx(tracks, Len(tracks))
                   /\ transferred_count + Len(failed_tracks)
                         = Len(searchLog)

\* the provider raised on the first track; the second track was still
\* searched, found and reported
C10_Witness ==
    /\ pc = "done" /\ IsReport(result)
    /\ Len(searchLog) = 2
    /\ searchLog[1].resp = Raised
    /\ IsFound(searchLog[2])
    /\ result.transferred_count = 1
    /\ Len(result.failed_tracks) = 1

(* ------------------------------ C11 ------------------------------------- *)
\* C11: for each present track exactly one search is issued (filter "songs",
\* limit 5), never a second one; whenever the search returns a non-empty
\* result list the outcome is Found with the id of the first result, and
\* only an empty result list or a search error gives NotFound.  (Stated for
\* result lists whose first entry carries an id, as the search interface
\* promises; the entry without an id is the matter of C23.)
C11_OneSearchFirstResultWins ==
    /\ Len(CallsOf("search")) = Len(searchLog)
    /\ \A k \in 1..Len(searchLog) :
          LET r == searchLog[k].resp
          IN /\ k <= Len(CallsOf("search"))
                    => CallsOf("search")[k].arg
                          = [query |-> SearchQuery(tracks[searchLog[k].idx]),
                             filter |-> "songs", limit |-> 5]
             /\ (r.kind = "ok" /\ r.results # <<>> /\ Truthy(r.results[1]))
                    => /\ IsFound(searchLog[k])
                       /\ search_youtube_music(r) = r.results[1]
             /\ IsNotFound(searchLog[k])
                    => \/ r.kind = "raise"
                       \/ r.kind = "ok" /\ r.results = <<>>
                       \/ r.kind = "ok" /\ ~Truthy(r.results[1])

(* ------------------------------ C12 ------------------------------------- *)
\* the calls made to the source catalog
SourceOps == {"Spotify", "playlist", "playlist_tracks"}

\* C12: the destination handle is constructed, successfully, before any call
\* to the source catalog (handle construction, metadata, page) is issued;
\* when its construction fails the transfer returns an error and has made no
\* source-catalog call.
C12_DestinationBeforeSource ==
    /\ \A k \in 1..Len(calls) :
          calls[k].op \in SourceOps => k > 1 /\ calls[1].op = "YTMusic"
    /\ errorSource = "YTMusic" =>
          /\ pc = "done" /\ IsError(result)
          /\ \A k \in 1..Len(calls) : calls[k].op \notin SourceOps

\* the transfer ended by a failed YTMusic(..): one call in all
C12_Witness ==
    /\ pc = "done"
    /\ errorSource = "YTMusic"
    /\ Len(calls) = 1
    /\ IsError(result)

(* ------------------------------ C13 ------------------------------------- *)
\* the label the error taxonomy gives to a failure of each step
StepLabel(src) ==
    CASE src = "extract"                              -> "InvalidLocator"
      [] src = "YTMusic"                              -> "DestinationAuthFailed"
      [] src = "Spotify"                              -> "SourceAuthFailed"
      [] src \in {"playlist", "playlist_tracks"}      -> "SourceReadFailed"
      [] src \in {"create_playlist", "add_playlist_items"}
                                                      -> "DestinationWriteFailed"
      [] OTHER                                        -> None

\* what a caller can read of the failed step from a returned error: a label
\* field if there is one, the fixed text of the locator failure otherwise
LabelOf(r) ==
    IF "label" \in DOMAIN r THEN r.label
    ELSE IF r = InvalidUrlError THEN "InvalidLocator"
    ELSE None

C14_FetchFailureAbandons ==
    errorSource \in {"playlist", "playlist_tracks"} =>
        /\ pc = "done"
        /\ IsError(result)
        /\ searchLog = <<>>
        /\ \A k \in 1..Len(calls) :
              calls[k].op \notin {"search", "create_playlist",
                                  "add_playlist_items"}

\* the second page request failed after a first page holding a present track
C14_Witness ==
    /\ pc = "done"
    /\ errorSource = "playlist_tracks"
    /\ Len(pages) = 1
    /\ \E k \in 1..Len(pages[1]) : IsPresent(pages[1][k])
    /\ Len(CallsOf("playlist_tracks")) = 2
    /\ IsError(result)

(* ------------------------------ C15 ------------------------------------- *)
\* C15: a slot without a track is never searched and adds nothing to
\* transferred_count, to video_ids or to failed_tracks: after i slots these
\* account for the present slots among them and for nothing else; the slot
\* is still counted in total_tracks of the report.
C15_AbsentSlotSkipped ==
    LET present == CountIf(SubSeq(tracks, 1, i), IsPresent)
        absent  == CountIf(SubSeq(tracks, 1, i), IsAbsent)
    IN /\ \A k \in 1..Len(searchLog) : IsPresent(tracks[searchLog[k].idx])
       /\ Len(searchLog) = present
       /\ Len(CallsOf("search")) <= present
       /\ Len(video_ids) + Len(failed_tracks) = present
       /\ transferred_count = Len(video_ids)
       /\ (pc = "done" /\ IsReport(result)) =>
             /\ result.total_tracks = present + absent
             /\ result.transferred_count + Len(result.failed_tracks) = present

\* a report over a slot without a track followed by a present track
C15_Witness ==
    /\ pc = "done"
    /\ IsReport(result)
    /\ Len(tracks) = 2
    /\ IsAbsent(tracks[1])
    /\ IsPresent(tracks[2])
    /\ result.total_tracks = 2
    /\ Len(searchLog) = 1

(* ------------------------------ C18 ------------------------------------- *)
\* the positions in the call log of the calls of one operation
PositionsOf(op) == {k \in 1..Len(calls) : calls[k].op = op}

\* the last page was read and reported no further page
FetchCompleted ==
    /\ pages # <<>>
    /\ ~results_next
    /\ errorSource \notin {"YTMusic", "Spotify", "extract", "playlist",
                           "playlist_tracks"}
    /\ pc # "create"

\* C18: on a transfer whose fetch completes create_playlist is called exactly
\* once, after every page request and before every search, with the source
\* playlist's name as title, privacy PRIVATE and a description holding that
\* name; the id it returns is the id given to add_playlist_items and the
\* ytm_playlist_id of the report.
C18_CreateOnceBetweenFetchAndSearch ==
    /\ Cardinality(PositionsOf("create_playlist")) <= 1
    /\ FetchCompleted => Cardinality(PositionsOf("create_playlist")) = 1
    /\ \A c \in PositionsOf("create_playlist") :
          /\ ~results_next
          /\ Cardinality(PositionsOf("playlist_tracks")) = Len(pages)
          /\ \A k \in PositionsOf("playlist_tracks") : k < c
          /\ \A k \in PositionsOf("search") \cup
                      PositionsOf("add_playlist_items") : c < k
          /\ calls[c].arg.title = playlist_name
          /\ calls[c].arg.privacy_status = "PRIVATE"
          /\ \E j \in 1..Len(calls[c].arg.description) :
                calls[c].arg.description[j] = playlist_name
    /\ \A k \in PositionsOf("add_playlist_items") :
          /\ calls[k].arg.playlistId = ytm_playlist_id
          /\ ytm_playlist_id \in PlaylistIds
    /\ (pc = "done" /\ IsReport(result)) =>
          /\ result.ytm_playlist_id = ytm_playlist_id
          /\ ytm_playlist_id \in PlaylistIds

\* a report after two pages, one created playlist "PL2" and one add to it
C18_Witness ==
    /\ pc = "done"
    /\ IsReport(result)
    /\ Len(pages) = 2
    /\ result.ytm_playlist_id = "PL2"
    /\ \E k \in PositionsOf("add_playlist_items") :
          calls[k].arg.playlistId = "PL2"
    /\ PositionsOf("search") # {}

(* ------------------------------ C19 ------------------------------------- *)
\* a step that issues a page request
PageRequested ==
    Len(calls') = Len(calls) + 1 /\ calls'[Len(calls')].op = "playlist_tracks"

\* C19: for every finite source playlist the page requests are finitely
\* many (each after the first starts at an offset inside the playlist), a
\* page is requested only at the start or after a page that reported a next
\* cursor, and the transfer reaches a final outcome, report or error.
C19_PaginationTerminates ==
    /\ [](\A k \in 2..Len(CallsOf("playlist_tracks")) :
             /\ CallsOf("playlist_tracks")[k].arg.offset
                   = (k - 1) * source.limit
             /\ CallsOf("playlist_tracks")[k].arg.offset < Len(source.items))
    /\ [][PageRequested => (pc = "first_page" \/ results_next)]_vars
    /\ [](pc = "create" => ~results_next /\ tracks = source.items)
    /\ <>(pc = "done" /\ (IsReport(result) \/ IsError(result)))

\* a report over a playlist that was read in two pages
C19_Witness ==
    /\ source.finite
    /\ pc = "done"
    /\ IsReport(result)
    /\ Len(pages) = 2
    /\ tracks = source.items
    /\ Len(CallsOf("playlist_tracks")) = 2

(* ------------------------------ C20 ------------------------------------- *)
\* a POST to /transfer with a JSON body
TransferPost == request.path = "/transfer" /\ request.json

\* ... that carries a non-empty spotify_url and a non-empty headers object
CarriesBoth ==
    TransferPost /\ TruthySeq(locator) /\ request.ytmusic_headers = "object"

\* ... that lacks one of the two (absent or empty)
LacksOne ==
    /\ TransferPost
    /\ ~TruthySeq(locator) \/ ~TruthyHeaders(request.ytmusic_headers)

\* C20: a POST to /transfer carrying a non-empty spotify_url and a non-empty
\* ytmusic_headers object is answered with status 200 and the transfer's
\* result as body, a failed transfer showing as the "error" field of that
\* body; a request lacking either parameter is answered with 400 and
\* transfer_playlist is not invoked.
C20_TransferAlways200 ==
    /\ (CarriesBoth /\ pc = "responded") =>
          /\ response.status = 200
          /\ response.body = result
          /\ IsReport(response.body) \/ IsError(response.body)
          /\ errorSource # None => IsError(response.body)
    /\ (CarriesBoth /\ pc # "responded") => response = NoResponse
    /\ LacksOne =>
          /\ pc \in {"do_POST", "responded"}
          /\ calls = <<>>
          /\ result = NoResult
          /\ pc = "responded" => response.status = 400

\* a transfer that failed at spotipy.Spotify(..), answered with status 200
C20_Witness ==
    /\ CarriesBoth
    /\ pc = "responded"
    /\ errorSource = "Spotify"
    /\ response.status = 200
    /\ IsError(response.body)

(* ------------------------------ C16 ------------------------------------- *)
\* the operations transfer_playlist invokes on the two providers
TransferOps == {"YTMusic", "Spotify", "playlist", "playlist_tracks",
                "create_playlist", "search", "add_playlist_items"}

CreatesOf(f) == SelectSeq(f.calls, LAMBDA c : c.op = "create_playlist")

Reported(f) == f.pc = "done" /\ IsReport(f.result)

\* C16: two transfers of the same locator each call create_playlist once and
\* make no call that looks an existing playlist up; when both have reported,
\* two destination playlists exist and the two reports carry two different
\* ytm_playlist_id, each the id returned to that call.
C16_TwoTransfersTwoPlaylists ==
    \A k \in 1..Len(other) :
        /\ \A j \in 1..Len(calls) : calls[j].op \in TransferOps
        /\ (Reported(Frame) /\ Reported(other[k])) =>
              /\ Len(CreatesOf(Frame)) = 1
              /\ Len(CreatesOf(other[k])) = 1
              /\ CreatesOf(Frame)[1].arg.title
                    = CreatesOf(other[k])[1].arg.title
              /\ result.ytm_playlist_id = ytm_playlist_id
              /\ other[k].result.ytm_playlist_id = other[k].ytm_playlist_id
              /\ result.ytm_playlist_id # other[k].result.ytm_playlist_id
              /\ Cardinality({ytm_playlist_id, other[k].ytm_playlist_id}
                             \cap PlaylistIds) = 2

\* both transfers of the same locator have reported, one "PL1", one "PL2"
C16_Witness ==
    /\ other # <<>>
    /\ Reported(Frame)
    /\ Reported(other[1])
    /\ result.ytm_playlist_id = "PL2"
    /\ other[1].result.ytm_playlist_id = "PL1"
    /\ result.playlist_name = other[1].result.playlist_name

(* ------------------------------ C17 ------------------------------------- *)
\* the report a call produces when run alone, from what the providers gave it
ReportOf(f) ==
    [success |-> TRUE,
     playlist_name |-> f.playlist_name,
     total_tracks |-> Len(Flatten(f.pages)),
     transferred_count |-> Len(FoundIds(f.searchLog)),
     failed_tracks |-> NotFoundRecords(f.searchLog, Flatten(f.pages)),
     ytm_playlist_id |-> f.ytm_playlist_id]

AddsOf(f) == SelectSeq(f.calls, LAMBDA c : c.op = "add_playlist_items")

\* a call whose outcome is that of the call run alone
Isolated(f) ==
    /\ \A k \in 1..Len(AddsOf(f)) :
          /\ AddsOf(f)[k].arg.videoIds = FoundIds(f.searchLog)
          /\ AddsOf(f)[k].arg.playlistId = f.ytm_playlist_id
    /\ f.pc \in {"loop", "add", "return"} =>
          /\ f.tracks = Flatten(f.pages)
          /\ f.video_ids = FoundIds(f.searchLog)
          /\ f.transferred_count = Len(FoundIds(f.searchLog))
          /\ f.failed_tracks = NotFoundRecords(f.searchLog, f.tracks)
    /\ Reported(f) =>
          /\ f.result = ReportOf(f)
          /\ Flatten(f.pages) = source.items
          /\ Len(AddsOf(f)) = (IF FoundIds(f.searchLog) = <<>> THEN 0 ELSE 1)

\* C17: with two calls interleaved in one process, under every interleaving
\* each call's report and the batch it gives to add_playlist_items are those
\* of the call run alone, and a step of one call leaves the other call's
\* tracks, ids, failed tracks, count and handles as they were.
C17_CallsIsolated ==
    /\ [](Isolated(Frame) /\ \A k \in 1..Len(other) : Isolated(other[k]))
    /\ [][\/ other' = other
          \/ other' = <<Frame>> /\ Frame' = other[1]]_vars

\* both calls have reported, each after an add of its own batch, and the two
\* batches differ
C17_Witness ==
    /\ other # <<>>
    /\ Reported(Frame)
    /\ Reported(other[1])
    /\ AddsOf(Frame) # <<>>
    /\ AddsOf(other[1]) # <<>>
    /\ AddsOf(Frame)[1].arg.videoIds # AddsOf(other[1])[1].arg.videoIds

(* ------------------------------ C21 ------------------------------------- *)
\* the search calls index.py issues for the searched tracks, in order
ExpectedSearchCalls ==
    [k \in 1..Len(searchLog) |->
        Call("search", SearchArgs(tracks[searchLog[k].idx]))]

\* C21: the two copies are observationally equivalent. Their text differs
\* only inside search_youtube_music, and up to the response of a search the
\* calls of index.py are fixed by the inputs, so for the call sequences the
\* equivalence is: whichever copy runs, every searched track has the search
\* call that index.py issues for it, in order and with the same arguments.
C21_CopiesEquivalent ==
    CallsOf("search") = ExpectedSearchCalls

(* ------------------------------ C22 ------------------------------------- *)
\* C22: when add_playlist_items fails after create_playlist has succeeded,
\* the transfer returns an error alone (no report field, no playlist id) and
\* the failed add is its last provider call: nothing deletes the playlist
\* that was created, which stays on the destination with no item added.
C22_FailedAddLeavesPlaylist ==
    errorSource = "add_playlist_items" =>
        /\ pc = "done"
        /\ DOMAIN result = {"error"}
        /\ calls[Len(calls)].op = "add_playlist_items"
        /\ Cardinality(PositionsOf("add_playlist_items")) = 1
        /\ Cardinality(PositionsOf("create_playlist")) = 1
        /\ \A c \in PositionsOf("create_playlist") : c < Len(calls)
        /\ \A k \in 1..Len(calls) : calls[k].op \in TransferOps
        /\ ytm_playlist_id \in PlaylistIds
        /\ calls[Len(calls)].arg.playlistId = ytm_playlist_id

\* playlist "PL1" was created, two ids were found, the add failed
C22_Witness ==
    /\ pc = "done"
    /\ errorSource = "add_playlist_items"
    /\ IsError(result)
    /\ ytm_playlist_id = "PL1"
    /\ Len(video_ids) = 2

(* ------------------------------ C23 ------------------------------------- *)
\* the searches whose provider response has a first result that carries an id
FirstHasId(entry) ==
    /\ entry.resp.kind = "ok"
    /\ entry.resp.results # <<>>
    /\ Truthy(entry.resp.results[1])

\* the searches answered by a non-empty list whose first result has no id
FirstLacksId(entry) ==
    /\ entry.resp.kind = "ok"
    /\ entry.resp.results # <<>>
    /\ ~Truthy(entry.resp.results[1])

\* the ids of the first results, over the searches in which it carries one
FirstIds ==
    LET hits == SelectSeq(searchLog, FirstHasId)
    IN [k \in 1..Len(hits) |-> hits[k].resp.results[1]]

\* C23: every id of the batch given to add_playlist_items is a non-empty id,
\* the id of the first search result of a present track, one track per id;
\* a track whose non-empty result list has a first result without an id is
\* recorded in failed_tracks and no lower-ranked result of it is taken.
C23_BatchOfFirstResultIds ==
    /\ \A a, b \in 1..Len(searchLog) :
          a < b => searchLog[a].idx < searchLog[b].idx
    /\ \A k \in 1..Len(searchLog) : IsPresent(tracks[searchLog[k].idx])
    /\ ytm_playlist_id # None => video_ids = FirstIds
    /\ \A k \in 1..Len(video_ids) : Truthy(video_ids[k])
    /\ \A c \in PositionsOf("add_playlist_items") :
          /\ calls[c].arg.videoIds = FirstIds
          /\ calls[c].arg.videoIds # <<>>
    /\ ytm_playlist_id # None =>
          Len(failed_tracks) = Len(searchLog) - Len(FirstIds)
    /\ \A k \in 1..Len(searchLog) :
          FirstLacksId(searchLog[k]) =>
             \E j \in 1..Len(failed_tracks) :
                /\ failed_tracks[j].name = tracks[searchLog[k].idx].name
                /\ j = CountIf(SubSeq(searchLog, 1, k),
                               LAMBDA e : ~FirstHasId(e))

\* the first track answered by a list whose first result has no id and whose
\* second has one, the second track matched: the batch holds one id
C23_Witness ==
    /\ pc = "done"
    /\ IsReport(result)
    /\ Len(searchLog) = 2
    /\ searchLog[1].resp.results = <<None, "v1">>
    /\ searchLog[2].resp.results = <<"v2", "v1">>
    /\ calls[Len(calls)].op = "add_playlist_items"
    /\ calls[Len(calls)].arg.videoIds = <<"v2">>
    /\ Len(result.failed_tracks) = 1

(* ------------------------------ C24 ------------------------------------- *)
\* the offsets of the page requests of the fetch, in request order
Offsets ==
    [k \in 1..Len(CallsOf("playlist_tracks")) |->
        CallsOf("playlist_tracks")[k].arg.offset]

\* C24 (as claimed): the offsets of successive page requests are strictly
\* increasing, 0 for the first, so that no page is requested twice, whatever
\* item counts and next cursors the source service returns.
C24_OffsetsStrictlyIncrease ==
    /\ Len(Offsets) >= 1 => Offsets[1] = 0
    /\ \A k \in 1..Len(Offsets) - 1 : Offsets[k] < Offsets[k + 1]

\* C24 (amended): the first offset is 0 and each later offset is the running
\* item count, the offset before it plus the item count of the page that
\* came back: the offsets never decrease, and a request repeats the offset
\* of the one before it exactly when that one returned an empty page with a
\* next cursor.
C24_OffsetsFollowItemCount ==
    /\ Len(Offsets) >= 1 => Offsets[1] = 0
    /\ \A k \in 1..Len(Offsets) - 1 :
          /\ Offsets[k + 1] = Offsets[k] + Len(pages[k])
          /\ Offsets[k] <= Offsets[k + 1]
          /\ Offsets[k] = Offsets[k + 1] <=> pages[k] = <<>>

\* the first page came back empty with a next cursor: offset 0 is asked again
C24_Witness ==
    /\ Len(Offsets) = 2
    /\ pages # <<>>
    /\ pages[1] = <<>>
    /\ Offsets[1] = 0
    /\ Offsets[2] = 0

====
